---- MODULE Spec2Model ----
(***************************************************************************)
(* Model of the Essent dynamic price sensor                                *)
(* (custom_components/my_custom_device/sensor.py).                         *)
(*                                                                         *)
(* JSON values are encoded as tagged records.  A Python dict over a fixed  *)
(* universe of keys is a total function whose value at a missing key is    *)
(* tagged "absent", so that `key in d` is d[key].t # "absent".             *)
(*                                                                         *)
(*   timestamp value  [t, v]  t = "str"    ISO-8601 string of instant v    *)
(*                            t = "badstr" string parse_datetime rejects   *)
(*                                         (a string without UTC offset    *)
(*                                         ends the same way: comparing it *)
(*                                         with now raises TypeError)      *)
(*                            t = "num"    epoch number of instant v       *)
(*                            t = "null"   JSON null                       *)
(*                            t = "arr"    a non-empty JSON array          *)
(*   price value      [t, v]  t = "num"    finite JSON number v            *)
(*                            t = "numstr" string spelling the number v    *)
(*                            t = "badstr" string float() rejects          *)
(*                            t = "null"   JSON null                       *)
(*                            t = "huge"   integer beyond the float range  *)
(*   list element     [t, ts, pr]  t = "obj" a JSON object (dict)          *)
(*                            t = "str"    a JSON string                   *)
(*                            t = "num"    a JSON number                   *)
(*   container value  [t, a]  t = "arr"    JSON array with elements a      *)
(*                            t = "null"   JSON null                       *)
(*                            t = "str"    a non-empty JSON string         *)
(*   response body    [t, c, a]  t = "obj" dict with containers c          *)
(*                            t = "arr"    top-level array with elements a *)
(* Instants are integers counting half hours.                              *)
(***************************************************************************)
EXTENDS Integers, Sequences, FiniteSets, TLC

VARIABLES
    native_value,   \* self._attr_native_value
    attrs,          \* self._attr_extra_state_attributes
    prices_list,    \* self._prices_list
    now,            \* dt_util.now()
    pc,             \* position of each async_update invocation
    snap,           \* visible state when the latest invocation started,
                    \* forgotten once an invocation gets past its fetch
    last,           \* how the most recent fetch ended, and its body
    arg,            \* argument of a direct call of a parsing method
    ret             \* result of that call

vars == <<native_value, attrs, prices_list, now, pc, snap, last, arg, ret>>

----------------------------------------------------------------------------
(* Bounds *)

MaxNow == 2

MaxItems == 3

MaxCycles == 2

----------------------------------------------------------------------------
(* Key tables of the source, in probing order *)

possible_list_keys == <<"prices", "data", "tariffs", "rates", "items", "results">>

timestamp_keys == <<"timestamp", "date", "datetime", "time", "validFrom", "from", "start">>

price_keys == <<"price", "rate", "tariff", "value", "amount">>

Range(s) == {s[i] : i \in DOMAIN s}

----------------------------------------------------------------------------
(* JSON encodings *)

Absent == [t |-> "absent", v |-> 0]

Null == [t |-> "null", v |-> 0]

IsoStr(n) == [t |-> "str", v |-> n]

BadStr == [t |-> "badstr", v |-> 0]

Epoch(n) == [t |-> "num", v |-> n]

JArr == [t |-> "arr", v |-> 0]

Num(n) == [t |-> "num", v |-> n]

NumStr(n) == [t |-> "numstr", v |-> n]

Huge == [t |-> "huge", v |-> 0]

NoTs == [k \in Range(timestamp_keys) |-> Absent]

NoPr == [k \in Range(price_keys) |-> Absent]

\* a dict element with one timestamp field and one price field
Rec(tk, tv, pk, pv) ==
    [t |-> "obj", ts |-> [NoTs EXCEPT ![tk] = tv], pr |-> [NoPr EXCEPT ![pk] = pv]]

StrItem == [t |-> "str", ts |-> NoTs, pr |-> NoPr]

NumItem == [t |-> "num", ts |-> NoTs, pr |-> NoPr]

NoContainers == [k \in Range(possible_list_keys) |-> [t |-> "absent", a |-> <<>>]]

CArr(items) == [t |-> "arr", a |-> items]

CNull == [t |-> "null", a |-> <<>>]

CStr == [t |-> "str", a |-> <<>>]

EmptyObj == [t |-> "obj", c |-> NoContainers, a |-> <<>>]

Obj1(k, cv) == [t |-> "obj", c |-> [NoContainers EXCEPT ![k] = cv], a |-> <<>>]

Obj2(k1, cv1, k2, cv2) ==
    [t |-> "obj", c |-> [NoContainers EXCEPT ![k1] = cv1, ![k2] = cv2], a |-> <<>>]

TopArr(items) == [t |-> "arr", c |-> NoContainers, a |-> items]

----------------------------------------------------------------------------
(* Results of a method call *)

None == [k |-> "none", v |-> 0]

Val(n) == [k |-> "val", v |-> n]

Raise == [k |-> "raise", v |-> 0]

----------------------------------------------------------------------------
(* _extract_price_value *)

\* float(x): the number, or the exception class raised
FloatOf(x) ==
    CASE x.t = "num" -> Val(x.v)
      [] x.t = "numstr" -> Val(x.v)
      [] x.t = "huge" -> [k |-> "OverflowError", v |-> 0]
      [] x.t = "badstr" -> [k |-> "ValueError", v |-> 0]
      [] OTHER -> [k |-> "TypeError", v |-> 0]

RECURSIVE ExtractFrom(_, _, _)
ExtractFrom(price_item, keys, i) ==
    IF i > Len(keys) THEN None
    ELSE IF price_item.pr[keys[i]].t = "absent" THEN ExtractFrom(price_item, keys, i + 1)
    ELSE LET f == FloatOf(price_item.pr[keys[i]])
         IN  CASE f.k = "val" -> f
               [] f.k \in {"ValueError", "TypeError"} -> ExtractFrom(price_item, keys, i + 1)
               [] OTHER -> Raise

ExtractPriceValue(price_item, keys) == ExtractFrom(price_item, keys, 1)

----------------------------------------------------------------------------
(* _parse_current_price *)

Continue == [k |-> "continue", v |-> 0]

Min(S) == CHOOSE x \in S : \A y \in S : x <= y

\* index of the first key of keys that is in the dict d, 0 when none is
FirstPresent(keys, d) ==
    LET S == {i \in DOMAIN keys : d[keys[i]].t # "absent"}
    IN  IF S = {} THEN 0 ELSE Min(S)

\* list.index(x): position of the first element equal to x
Index(list, x) == Min({i \in DOMAIN list : list[i] = x})

\* Python truth value of a timestamp field returned by dict.get
Truthy(x) == x.t \in {"str", "badstr", "arr"} \/ (x.t = "num" /\ x.v # 0)

\* Python truth value of the located prices_list
TruthyList(c) == c.t = "str" \/ (c.t = "arr" /\ Len(c.a) > 0)

\* return self._extract_price_value(...) inside the try of the item loop
ReturnPrice(price_item) ==
    LET e == ExtractPriceValue(price_item, price_keys)
    IN  IF e.k = "raise" THEN Continue ELSE e

\* one pass of the body of `for price_item in prices_list`
ItemStep(list, i, t) ==
    LET price_item == list[i]
    IN  IF price_item.t = "num" THEN Raise
        ELSE IF price_item.t = "str" THEN Continue
        ELSE
        LET ki == FirstPresent(timestamp_keys, price_item.ts)
        IN  IF ki = 0 THEN Continue
            ELSE
            LET timestamp_key_found == timestamp_keys[ki]
                timestamp == price_item.ts[timestamp_key_found]
            IN  IF timestamp.t \notin {"str", "num"} THEN Continue
                ELSE
                LET price_time == timestamp.v
                    price_index == Index(list, price_item)
                IN  IF price_index < Len(list)
                    THEN LET nxt == list[price_index + 1]
                         IN  IF nxt.t # "obj" THEN Continue
                             ELSE
                             LET next_timestamp == nxt.ts[timestamp_key_found]
                             IN  IF ~Truthy(next_timestamp) THEN Continue
                                 ELSE IF next_timestamp.t = "arr" THEN Continue
                                 ELSE IF ~(price_time <= t) THEN Continue
                                 ELSE IF next_timestamp.t = "badstr" THEN Continue
                                 ELSE IF t < next_timestamp.v
                                      THEN ReturnPrice(price_item)
                                      ELSE Continue
                    ELSE IF price_time <= t
                         THEN ReturnPrice(price_item)
                         ELSE Continue

RECURSIVE Scan(_, _, _)
Scan(list, i, t) ==
    IF i > Len(list) THEN None
    ELSE LET s == ItemStep(list, i, t)
         IN  IF s.k = "continue" THEN Scan(list, i + 1, t) ELSE s

\* the value bound to prices_list before the emptiness tests
LocateList(data) ==
    LET ki == IF data.t = "obj" THEN FirstPresent(possible_list_keys, data.c) ELSE 0
    IN  IF data.t = "arr" THEN CArr(data.a)
        ELSE IF ki = 0 THEN CNull
        ELSE data.c[possible_list_keys[ki]]

\* [r |-> what the call returns or raises, plist |-> self._prices_list afterwards]
ParseCurrentPrice(data, t, plist) ==
    LET found == LocateList(data)
    IN  IF ~TruthyList(found) THEN [r |-> None, plist |-> plist]
        ELSE IF found.t # "arr" \/ Len(found.a) = 0 THEN [r |-> None, plist |-> plist]
        ELSE IF found.a[1].t # "obj" THEN [r |-> Raise, plist |-> plist]
        ELSE [r |-> Scan(found.a, 1, t), plist |-> found.a]

----------------------------------------------------------------------------
(* The sensor after construction *)

NoAttrs == [present |-> FALSE, prices |-> <<>>, last_update |-> 0, raw_data |-> EmptyObj]

Cycles == 1 .. MaxCycles

NoLast == [outcome |-> "none", escaped |-> FALSE, body |-> EmptyObj]

NoSnap == [native |-> None, attrs |-> NoAttrs]

NoArg == [fn |-> "none", data |-> EmptyObj, item |-> StrItem]

NoRet == [done |-> FALSE, r |-> None]

SensorInit ==
    /\ native_value = None
    /\ attrs = NoAttrs
    /\ prices_list = <<>>

IdleInit ==
    /\ pc = [c \in Cycles |-> "idle"]
    /\ snap = NoSnap
    /\ last = NoLast

----------------------------------------------------------------------------
(* async_update *)

\* what session.get and response.json can come to
TransportFailures == {"timeout", "client_error", "bad_status", "content_type", "bad_json"}

\* the exception class each failure raises inside the try block, "" for none
RaisedBy(kind) ==
    CASE kind = "timeout" -> "TimeoutError"
      [] kind = "client_error" -> "ClientError"
      [] kind = "content_type" -> "ContentTypeError"
      [] kind = "bad_json" -> "JSONDecodeError"
      [] OTHER -> ""

\* except aiohttp.ClientError / except Exception
Caught(exc) ==
    \/ exc \in {"ClientError", "ContentTypeError"}
    \/ exc \in {"TimeoutError", "JSONDecodeError", "AttributeError", "TypeError"}

\* the plausible slip of marking the value unknown in the failure paths
AfterFailureUnknown(st) == [native |-> None, attrs |-> st.attrs]

\* The early return and both except clauses only log: what they leave of
\* the visible state st.
AfterFailure(st) == [native |-> st.native, attrs |-> st.attrs]

\* The synchronous part of async_update from the fetch result on.
\* st = [native, attrs, plist] is the sensor before, t is dt_util.now();
\* the result adds how the call ended.
AsyncUpdate(resp, st, t) ==
    LET keep(outcome, exc) ==
            [native |-> AfterFailure(st).native, attrs |-> AfterFailure(st).attrs,
             plist |-> st.plist, outcome |-> outcome, escaped |-> exc # "" /\ ~Caught(exc)]
        p == ParseCurrentPrice(resp.body, t, st.plist)
    IN  IF resp.kind = "bad_status" THEN keep("bad_status", "")
        ELSE IF resp.kind # "json" THEN keep(resp.kind, RaisedBy(resp.kind))
        ELSE IF resp.body.t # "obj" THEN keep("error", "AttributeError")
        ELSE IF p.r.k = "raise"
             THEN [keep("error", "TypeError") EXCEPT !.plist = p.plist]
        ELSE [native |-> IF p.r.k = "val" THEN p.r ELSE st.native,
              attrs |-> [present |-> TRUE, prices |-> p.plist,
                         last_update |-> t, raw_data |-> resp.body],
              plist |-> p.plist,
              outcome |-> "published", escaped |-> FALSE]

\* bodies the endpoint may answer with
SampleBodies ==
    { EmptyObj,
      Obj1("prices", CArr(<<Rec("timestamp", IsoStr(1), "price", Num(10)),
                            Rec("timestamp", IsoStr(2), "price", Num(20))>>)),
      Obj1("data", CArr(<<Rec("timestamp", IsoStr(2), "price", Num(30))>>)),
      Obj1("prices", CArr(<<Rec("timestamp", IsoStr(1), "price", Num(10)), NumItem>>)),
      TopArr(<<Rec("timestamp", IsoStr(1), "price", Num(10)),
               Rec("timestamp", IsoStr(2), "price", Num(20))>>) }

Responses ==
    {[kind |-> k, body |-> EmptyObj] : k \in TransportFailures}
    \cup {[kind |-> "json", body |-> b] : b \in SampleBodies}

Init ==
    /\ SensorInit /\ IdleInit
    /\ now = 0
    /\ arg = NoArg
    /\ ret = NoRet

\* async_update is entered and suspends at the fetch
Start(c) ==
    /\ pc[c] = "idle"
    /\ pc' = [pc EXCEPT ![c] = "fetching"]
    /\ snap' = [native |-> native_value, attrs |-> attrs]
    /\ UNCHANGED <<native_value, attrs, prices_list, now, last, arg, ret>>

\* the host starts a refresh only when none is running
StartSerial(c) ==
    /\ \A d \in Cycles : pc[d] = "idle"
    /\ Start(c)

\* the fetch resumes with resp and the rest of the try block runs
Resume(c, resp) ==
    /\ pc[c] = "fetching"
    /\ LET u == AsyncUpdate(resp, [native |-> native_value, attrs |-> attrs,
                                   plist |-> prices_list], now)
       IN  /\ native_value' = u.native
           /\ attrs' = u.attrs
           /\ prices_list' = u.plist
           /\ last' = [outcome |-> u.outcome, escaped |-> u.escaped, body |-> resp.body]
           /\ pc' = [pc EXCEPT ![c] = IF u.outcome = "published" THEN "closing" ELSE "idle"]
           /\ snap' = IF u.outcome \in TransportFailures THEN snap ELSE NoSnap
    /\ UNCHANGED <<now, arg, ret>>

FetchFails(c) ==
    \E resp \in Responses : resp.kind # "json" /\ Resume(c, resp)

FetchJson(c) ==
    \E resp \in Responses : resp.kind = "json" /\ Resume(c, resp)

\* the response and the session are released (or the timeout fires while
\* they are): nothing is written after the attributes
Finish(c) ==
    /\ pc[c] = "closing"
    /\ pc' = [pc EXCEPT ![c] = "idle"]
    /\ UNCHANGED <<native_value, attrs, prices_list, now, snap, last, arg, ret>>

Tick ==
    /\ now < MaxNow
    /\ now' = now + 1
    /\ UNCHANGED <<native_value, attrs, prices_list, pc, snap, last, arg, ret>>

Next ==
    \/ Tick
    \/ \E c \in Cycles : StartSerial(c)
    \/ \E c \in Cycles : FetchFails(c)
    \/ \E c \in Cycles : FetchJson(c)
    \/ \E c \in Cycles : Finish(c)

Spec == Init /\ [][Next]_vars

\* the same sensor when async_update may be called while a call is in flight
NextOverlap ==
    \/ Tick
    \/ \E c \in Cycles : Start(c)
    \/ \E c \in Cycles : FetchFails(c)
    \/ \E c \in Cycles : FetchJson(c)
    \/ \E c \in Cycles : Finish(c)

SpecOverlap == Init /\ [][NextOverlap]_vars

----------------------------------------------------------------------------
(* Direct calls of _extract_price_value on one list element *)

PriceKinds == {"absent", "num", "numstr", "badstr", "null", "huge"}

KeyPos(keys, k) == CHOOSE i \in DOMAIN keys : keys[i] = k

\* the value of kind g under the key k; numbers differ from key to key
PriceOfKind(g, k) == [t |-> g, v |-> IF g \in {"num", "numstr"} THEN 10 * KeyPos(price_keys, k) ELSE 0]

ExtractItems ==
    {[t |-> "obj", ts |-> NoTs, pr |-> [k \in Range(price_keys) |-> PriceOfKind(g[k], k)]] :
        g \in [Range(price_keys) -> PriceKinds]}

InitExtract ==
    /\ SensorInit /\ IdleInit
    /\ now = 0
    /\ arg \in {[NoArg EXCEPT !.fn = "extract", !.item = it] : it \in ExtractItems}
    /\ ret = NoRet

ExtractCall ==
    /\ arg.fn = "extract" /\ ~ret.done
    /\ ret' = [done |-> TRUE, r |-> ExtractPriceValue(arg.item, price_keys)]
    /\ UNCHANGED <<native_value, attrs, prices_list, now, pc, snap, last, arg>>

NextExtract == ExtractCall

SpecExtract == InitExtract /\ [][NextExtract]_vars

----------------------------------------------------------------------------
(* Direct calls of _parse_current_price on one response body *)

ItA == Rec("timestamp", IsoStr(1), "price", Num(10))

ItB == Rec("timestamp", IsoStr(2), "price", Num(20))

ItC == Rec("timestamp", IsoStr(3), "price", Num(30))

\* an epoch start of 0 seconds
ItZero == Rec("timestamp", Epoch(0), "price", Num(5))

\* a start given as an epoch number
ItEpoch == Rec("timestamp", Epoch(2), "price", Num(25))

\* a timestamp string that is no date
ItBadTs == Rec("timestamp", BadStr, "price", Num(40))

\* a dict with no timestamp field
ItNoTs == [t |-> "obj", ts |-> NoTs, pr |-> [NoPr EXCEPT !["price"] = Num(50)]]

\* a dict whose start is under another key than its neighbours'
ItStart == Rec("start", IsoStr(2), "price", Num(60))

\* a timestamp field holding null
ItNullTs == Rec("timestamp", Null, "price", Num(70))

\* a timestamp field holding an array
ItArrTs == Rec("timestamp", JArr, "price", Num(80))

ParseItems ==
    {ItA, ItB, ItC, ItZero, ItEpoch, ItBadTs, ItNoTs, ItStart, ItNullTs, ItArrTs,
     StrItem, NumItem}

Lists(S, n) == UNION {[1 .. k -> S] : k \in 0 .. n}

ContainerSamples == {CNull, CStr, CArr(<<>>), CArr(<<ItA>>), CArr(<<ItB, ItC>>)}

ParseBodies ==
    {TopArr(L) : L \in Lists(ParseItems, MaxItems)}
    \cup {Obj1("prices", CArr(L)) : L \in Lists(ParseItems, MaxItems)}
    \cup {Obj2("prices", x, "data", y) : x, y \in ContainerSamples}
    \cup {Obj2("data", x, "results", y) : x, y \in ContainerSamples}

InitParse ==
    /\ SensorInit /\ IdleInit
    /\ now \in 0 .. MaxNow
    /\ arg \in {[NoArg EXCEPT !.fn = "parse", !.data = d] : d \in ParseBodies}
    /\ ret = NoRet

ParseCall ==
    /\ arg.fn = "parse" /\ ~ret.done
    /\ LET p == ParseCurrentPrice(arg.data, now, prices_list)
       IN  /\ ret' = [done |-> TRUE, r |-> p.r]
           /\ prices_list' = p.plist
    /\ UNCHANGED <<native_value, attrs, now, pc, snap, last, arg>>

NextParse == ParseCall

SpecParse == InitParse /\ [][NextParse]_vars

----------------------------------------------------------------------------
(* Vocabulary of the claims *)

\* the interval list of a body: the body itself when it is an array, else the
\* value of the first candidate key that is present and an array, else empty
LocateIntervals(data) ==
    LET S == {i \in DOMAIN possible_list_keys : data.c[possible_list_keys[i]].t = "arr"}
    IN  IF data.t = "arr" THEN data.a
        ELSE IF S = {} THEN <<>>
        ELSE data.c[possible_list_keys[Min(S)]].a

\* a record with a recognized timestamp field holding an ISO string or a number
Parseable(item) ==
    /\ item.t = "obj"
    /\ FirstPresent(timestamp_keys, item.ts) # 0
    /\ item.ts[timestamp_keys[FirstPresent(timestamp_keys, item.ts)]].t \in {"str", "num"}

StartOf(item) == item.ts[timestamp_keys[FirstPresent(timestamp_keys, item.ts)]].v

AllParseable(list) == \A i \in DOMAIN list : Parseable(list[i])

Ascending(list) == \A i, j \in DOMAIN list : i < j => StartOf(list[i]) < StartOf(list[j])

DistinctStarts(list) == \A i, j \in DOMAIN list : i # j => StartOf(list[i]) # StartOf(list[j])

\* every start is an ISO string under the key "timestamp"
IsoStarts(list) == \A i \in DOMAIN list : list[i].ts["timestamp"].t = "str"

Parsed == arg.fn = "parse" /\ ret.done

Extracted == arg.fn = "extract" /\ ret.done

----------------------------------------------------------------------------
(* C3: for every body whose records are parseable and ascending and every  *)
(* now before the first start or at or after the last end (the last start  *)
(* plus one hour, two half hours), _parse_current_price returns None.      *)
C3_BoundedHalfOpen ==
    LET list == LocateIntervals(arg.data)
        hour == 2
    IN  (/\ Parsed
         /\ Len(list) > 0 /\ AllParseable(list) /\ Ascending(list)
         /\ \/ now < StartOf(list[1])
            \/ now >= StartOf(list[Len(list)]) + hour)
        => ret.r = None

(* C6: for every object body the list that is used (and stored as          *)
(* _prices_list) is the value of the first candidate key that is present   *)
(* and an array; a present key holding a non-array is passed over.         *)
C6_FirstArrayKey ==
    LET list == LocateIntervals(arg.data)
    IN  (/\ Parsed
         /\ arg.data.t = "obj"
         /\ Len(list) > 0 /\ AllParseable(list))
        => prices_list = list

(* C7: for records with parseable, pairwise distinct starts the price      *)
(* resolved is the same for every ordering of the records, and is the      *)
(* price of the record with the greatest start <= now when now is before   *)
(* the next greater start.                                                 *)
C7_OrderIndependent ==
    LET list == arg.data.a
        n == Len(list)
    IN  (/\ Parsed
         /\ arg.data.t = "arr"
         /\ n > 0 /\ AllParseable(list) /\ IsoStarts(list) /\ DistinctStarts(list))
        => /\ \A f \in Permutations(1 .. n) :
                ParseCurrentPrice(TopArr([i \in 1 .. n |-> list[f[i]]]), now, <<>>).r = ret.r
           /\ \A i \in 1 .. n :
                (/\ StartOf(list[i]) <= now
                 /\ \A j \in 1 .. n : StartOf(list[j]) <= now => StartOf(list[j]) <= StartOf(list[i])
                 /\ \E j \in 1 .. n : StartOf(list[j]) > now)
                => ret.r = Val(list[i].pr["price"].v)

(* C8: unparseable records are dropped without affecting the others: the   *)
(* price resolved equals the price resolved from the same body with the    *)
(* unparseable records removed, and no exception ends the cycle.           *)
C8_UnparseableDropped ==
    (Parsed /\ arg.data.t = "arr")
    => /\ ret.r # Raise
       /\ ret.r = ParseCurrentPrice(TopArr(SelectSeq(arg.data.a, Parseable)), now, <<>>).r

ClaimedAliasOrder == <<"price", "value", "amount", "tariff", "rate">>

(* C9: the result is the float of the value under the first alias present, *)
(* probing price, value, amount, tariff, rate; it is absent when that      *)
(* value does not convert, and no exception escapes.                       *)
C9_FirstPresentAlias ==
    LET ki == FirstPresent(ClaimedAliasOrder, arg.item.pr)
        f == FloatOf(arg.item.pr[ClaimedAliasOrder[ki]])
    IN  Extracted
        => /\ ret.r # Raise
           /\ ret.r = IF ki = 0 THEN None ELSE IF f.k = "val" THEN f ELSE None

----------------------------------------------------------------------------
(* Claims about refresh cycles *)

Idle == \A c \in Cycles : pc[c] = "idle"

(* C1: a cycle that ends in a transport failure (timeout, connection       *)
(* error, non-200 status, body that is not JSON) raises nothing and leaves *)
(* the native value and the attributes as they were when it started.       *)
C1_FailureKeepsState ==
    last.outcome \in TransportFailures
    => /\ ~last.escaped
       /\ native_value = snap.native
       /\ attrs = snap.attrs

\* a fetch timed out after an earlier cycle had published a price
C1_Witness ==
    /\ Idle
    /\ last.outcome = "timeout"
    /\ attrs.present
    /\ native_value = Val(10)

(* C2: after a cycle whose fetch succeeded and in which no interval covers *)
(* now (here: no record of the body starts at or before now), the current  *)
(* price reported is absent, whatever earlier cycles reported.             *)
C2_NoStaleCurrent ==
    LET list == LocateIntervals(last.body)
    IN  (/\ last.outcome = "published"
         /\ \A i \in DOMAIN list : Parseable(list[i]) /\ StartOf(list[i]) > attrs.last_update)
        => native_value = None

(* C4: the interval list published by a successful cycle is the one        *)
(* located in the body published as raw_data; it is empty when that body   *)
(* has no container or an empty one.                                       *)
C4_FreshIntervalList ==
    last.outcome = "published" => attrs.prices = LocateIntervals(attrs.raw_data)

(* C5: a body that is itself an array of records makes a successful cycle  *)
(* that publishes the array as the interval list.                          *)
C5_ArrayBodyPublished ==
    last.body.t = "arr"
    => /\ last.outcome = "published"
       /\ attrs.raw_data = last.body
       /\ attrs.prices = last.body.a

(* C10: at most one invocation of async_update per sensor is between       *)
(* starting its fetch and writing the state: a call made while another is  *)
(* in flight is a no-op or waits.                                          *)
C10_OneCycleInFlight == Cardinality({c \in Cycles : pc[c] = "fetching"}) <= 1

====
